---- MODULE Spec2Model ----
(***************************************************************************)
(* Customer-analytics dashboard and batch ETL driver.                      *)
(*                                                                         *)
(* Timestamps (InvoiceDate) are whole hours since 2010-12-01 00:00, the    *)
(* date of the sample row shown by app.py.  Money (UnitPrice, TotalPrice,  *)
(* MonetaryValue) is counted in hundredths, so 1000 stands for 10.00 and   *)
(* 255 for 2.55.  A pandas column has one dtype for all of its rows; the   *)
(* dtype of the price columns is part of the input (variable dtype).       *)
(***************************************************************************)
EXTENDS Integers, Sequences, FiniteSets, TLC

\* ---------------------------------------------------------------- bounds
MaxCust == 4
MaxLines == 2
MaxFileRows == 3
ChunkSize == 2

\* ------------------------------------------------------ program constants
HoursPerDay == 24
QuartileCount == 4
NeutralScore == 2
DaysPerYear == 365
TopCount == 10

VARIABLES
    pc,                 \* position of the running entry point
    df, dtype,          \* the cleaned, transformed records and their price dtype
    rfm,                \* calculate_rfm's frame, and which columns qcut binned
    scores, label,      \* get_rfm_segment_meaning's argument and result
    clv,                \* calculate_clv's frame
    freq, trend,        \* get_sales_trends' granularity and series
    upload, columns, missing_cols, steps,       \* the dashboard run (app.py)
    source, chunk_iterator, total_revenue_per_product, sink, top_10_products
                        \* the batch run (data_pipeline.py)

analysisVars == <<df, dtype, rfm, scores, label, clv, freq, trend>>

appVars == <<upload, columns, missing_cols, steps>>

etlVars == <<source, chunk_iterator, total_revenue_per_product, sink, top_10_products>>

vars == <<pc, analysisVars, appVars, etlVars>>

\* --------------------------------------------------------------- helpers
Range(s) == {s[i] : i \in DOMAIN s}

MaxOf(S) == CHOOSE x \in S : \A y \in S : y <= x

MinOf(S) == CHOOSE x \in S : \A y \in S : x <= y

\* The elements of a set of numbers in ascending order.
SortAsc(S) ==
    [i \in 1..Cardinality(S) |->
        CHOOSE x \in S : Cardinality({y \in S : y < x}) = i - 1]

RECURSIVE SumSeq(_)
SumSeq(s) == IF s = <<>> THEN 0 ELSE Head(s) + SumSeq(Tail(s))

Column(d, name) == [i \in DOMAIN d |-> d[i][name]]

\* ------------------------------------------------- data_processing.py
\* transform_data: TotalPrice = Quantity * UnitPrice, one value per row.
transform_data(d) ==
    [i \in DOMAIN d |->
        [CustomerID |-> d[i].CustomerID, InvoiceNo |-> d[i].InvoiceNo,
         InvoiceDate |-> d[i].InvoiceDate, Quantity |-> d[i].Quantity,
         UnitPrice |-> d[i].UnitPrice,
         TotalPrice |-> d[i].Quantity * d[i].UnitPrice]]

\* ------------------------------------------------------- analytics.py
\* df.groupby('CustomerID'): the rows of one key, and the keys in sorted order.
group_rows(d, c) == SelectSeq(d, LAMBDA r : r.CustomerID = c)

\* One output row per input row: the grouping left out.
group_keys_per_row(d) == Column(d, "CustomerID")

group_keys(d) == SortAsc({d[i].CustomerID : i \in DOMAIN d})

\* snapshot_date = df['InvoiceDate'].max() + timedelta(days=1)
snapshot_date(d) == MaxOf(Range(Column(d, "InvoiceDate"))) + HoursPerDay

\* Timedelta.days: whole days of a non-negative span of hours.
days(delta) == delta \div HoursPerDay

Recency(d, c) ==
    days(snapshot_date(d) - MaxOf(Range(Column(group_rows(d, c), "InvoiceDate"))))

Frequency(d, c) == Cardinality(Range(Column(group_rows(d, c), "InvoiceNo")))

MonetaryValue(d, c) == SumSeq(Column(group_rows(d, c), "TotalPrice"))

\* rank(method='min'): tied values share the lowest rank of their group.
rank_min(v) ==
    [i \in DOMAIN v |-> 1 + Cardinality({j \in DOMAIN v : v[j] < v[i]})]

\* rank(method='first', ascending=False).
rank_first_descending(v) ==
    [i \in DOMAIN v |->
        1 + Cardinality({j \in DOMAIN v :
                            v[j] > v[i] \/ (v[j] = v[i] /\ j < i)})]

\* Series.rank(method='first'): ascending, ties ranked in order of appearance.
rank_first(v) ==
    [i \in DOMAIN v |->
        1 + Cardinality({j \in DOMAIN v :
                            v[j] < v[i] \/ (v[j] = v[i] /\ j < i)})]

\* The values in ascending order (what quantile interpolates between).
RECURSIVE sorted_values(_)
sorted_values(v) ==
    IF v = <<>> THEN <<>>
    ELSE LET m == MinOf(Range(v))
             at == MinOf({i \in DOMAIN v : v[i] = m})
         IN  <<m>> \o sorted_values(SubSeq(v, 1, at - 1) \o SubSeq(v, at + 1, Len(v)))

\* Series.quantile(k/4) with linear interpolation, times 4 to stay integral.
quantile4(v, k) ==
    LET s == sorted_values(v)
        pos == k * (Len(v) - 1)
        lo == (pos \div QuartileCount) + 1
        fr == pos % QuartileCount
    IN  IF fr = 0 THEN QuartileCount * s[lo]
        ELSE QuartileCount * s[lo] + fr * (s[lo + 1] - s[lo])

qcut_bins(v) == [k \in 0..QuartileCount |-> quantile4(v, k)]

\* _bins_to_cuts: searchsorted(side='left') with include_lowest.
bin_id(x, bins) ==
    IF QuartileCount * x = bins[0] THEN 1
    ELSE Cardinality({k \in DOMAIN bins : bins[k] < QuartileCount * x})

\* pd.qcut(v, q=4, labels=labels).astype(int): a ValueError when the bin edges
\* are not unique or a value falls in no bin, else the label of each value's bin.
qcut(v, labels) ==
    LET bins == qcut_bins(v)
        ids == [i \in DOMAIN v |-> bin_id(v[i], bins)]
    IN  IF \/ \E k \in 1..QuartileCount : bins[k] = bins[k - 1]
           \/ \E i \in DOMAIN v : ids[i] \notin 1..QuartileCount
        THEN [ok |-> FALSE, values |-> <<>>]
        ELSE [ok |-> TRUE, values |-> [i \in DOMAIN v |-> labels[ids[i]]]]

RLabels == <<4, 3, 2, 1>>

\* range(4) in place of range(1, 5).
FMLabelsFromZero == <<0, 1, 2, 3>>

FMLabels == <<1, 2, 3, 4>>

\* One pass of the loop of calculate_rfm: try qcut on the ranks, except 2.
score_column(v, labels) ==
    LET r == qcut(rank_first(v), labels)
    IN  IF r.ok THEN [binned |-> TRUE, values |-> r.values]
        ELSE [binned |-> FALSE, values |-> [i \in DOMAIN v |-> NeutralScore]]

\* DataFrame.apply(axis=1) hands the lambda a row of the frame's common dtype:
\* float64 as soon as one column (MonetaryValue) is float64, else int64.
row_dtype(dt) == IF dt = "float64" THEN "float64" ELSE "int64"

\* Python's str() of a whole number held as int64 or as float64.
py_str(x, dt) == IF dt = "float64" THEN ToString(x) \o ".0" ELSE ToString(x)

RFM_Segment(r, f, m, dt) ==
    py_str(r, row_dtype(dt)) \o py_str(f, row_dtype(dt)) \o py_str(m, row_dtype(dt))

RFM_Score(r, f, m) == r + f + m

calculate_rfm(d, dt) ==
    LET keys == group_keys(d)
        rec == [i \in DOMAIN keys |-> Recency(d, keys[i])]
        frq == [i \in DOMAIN keys |-> Frequency(d, keys[i])]
        mon == [i \in DOMAIN keys |-> MonetaryValue(d, keys[i])]
        R == score_column(rec, RLabels)
        F == score_column(frq, FMLabels)
        M == score_column(mon, FMLabels)
    IN  [binned |-> [R |-> R.binned, F |-> F.binned, M |-> M.binned],
         rows |->
            [i \in DOMAIN keys |->
                [CustomerID |-> keys[i],
                 Recency |-> rec[i], Frequency |-> frq[i], MonetaryValue |-> mon[i],
                 R |-> R.values[i], F |-> F.values[i], M |-> M.values[i],
                 RFM_Segment |-> RFM_Segment(R.values[i], F.values[i], M.values[i], dt),
                 RFM_Score |-> RFM_Score(R.values[i], F.values[i], M.values[i])]]]

\* The Loyal rule tested before the Best rule.
get_rfm_segment_meaning_loyal_first(row) ==
    IF row.R >= 3 /\ row.F >= 3 THEN "Loyal Customers"
    ELSE IF row.R >= 4 /\ row.F >= 4 /\ row.M >= 4 THEN "Best Customers"
    ELSE IF row.R >= 3 /\ row.M >= 3 THEN "Big Spenders"
    ELSE IF row.R <= 2 /\ row.F <= 2 THEN "At Risk"
    ELSE IF row.R <= 2 THEN "Needs Attention"
    ELSE "Others"

get_rfm_segment_meaning(row) ==
    IF row.R >= 4 /\ row.F >= 4 /\ row.M >= 4 THEN "Best Customers"
    ELSE IF row.R >= 3 /\ row.F >= 3 THEN "Loyal Customers"
    ELSE IF row.R >= 3 /\ row.M >= 3 THEN "Big Spenders"
    ELSE IF row.R <= 2 /\ row.F <= 2 THEN "At Risk"
    ELSE IF row.R <= 2 THEN "Needs Attention"
    ELSE "Others"

\* A float quotient num/den, kept exact; den = 0 is what a division by zero leaves.
Ratio(n, d) == [num |-> n, den |-> d]

day_of(t) == t \div HoursPerDay

\* (last_purchase_date - first_purchase_date).dt.days
purchase_lifespan(first, last) == days(last - first)

avg_order_value(revenue, transactions) == Ratio(revenue, transactions)

\* total_transactions / purchase_lifespan, the + 1 left out.
purchase_frequency_no_guard(transactions, lifespan) == Ratio(transactions, lifespan)

purchase_frequency(transactions, lifespan) == Ratio(transactions, lifespan + 1)

\* avg_order_value * purchase_frequency * 365
clv_value(aov, pf) == Ratio(aov.num * pf.num * DaysPerYear, aov.den * pf.den)

\* The frame of calculate_clv before its sort, one row per customer.
clv_frame(d) ==
    LET keys == group_keys(d)
        one(c) ==
            LET g == group_rows(d, c)
                transactions == Cardinality(Range(Column(g, "InvoiceNo")))
                revenue == SumSeq(Column(g, "TotalPrice"))
                first == MinOf(Range(Column(g, "InvoiceDate")))
                last == MaxOf(Range(Column(g, "InvoiceDate")))
                lifespan == purchase_lifespan(first, last)
                aov == avg_order_value(revenue, transactions)
                pf == purchase_frequency(transactions, lifespan)
            IN  [CustomerID |-> c,
                 total_transactions |-> transactions,
                 total_products |-> SumSeq(Column(g, "Quantity")),
                 total_revenue |-> revenue,
                 first_purchase_date |-> first,
                 last_purchase_date |-> last,
                 purchase_lifespan |-> lifespan,
                 avg_order_value |-> aov,
                 purchase_frequency |-> pf,
                 clv |-> clv_value(aov, pf)]
    IN  [i \in DOMAIN keys |-> one(keys[i])]

\* a >= b for quotients of positive denominator.
RatioGeq(a, b) == a.num * b.den >= b.num * a.den

\* sort_values(by='clv', ascending=False): every order of the rows that descends
\* in clv; the default sort does not say how it orders equal values.
calculate_clv(d) ==
    LET t == clv_frame(d)
        n == Len(t)
    IN  {[i \in 1..n |-> t[p[i]]] :
            p \in {q \in Permutations(1..n) :
                      \A i, j \in 1..n :
                          (i < j) => RatioGeq(t[q[i]].clv, t[q[j]].clv)}}

\* The calendar from 2010-12-01 (day 0, a Wednesday) to the end of 2011: the day
\* numbers of the last day of each month and of each quarter.
MonthEnds == <<30, 61, 89, 120, 150, 181, 211, 242, 273, 303, 334, 364, 395>>

QuarterEnds == <<30, 120, 211, 303, 395>>

\* The last day of the period of granularity f that holds day d ('W' ends on Sunday).
period_end(d, f) ==
    CASE f = "D" -> d
      [] f = "W" -> d + (6 - ((d + 2) % 7))
      [] f = "M" -> MinOf({e \in Range(MonthEnds) : e >= d})
      [] f = "Q" -> MinOf({e \in Range(QuarterEnds) : e >= d})

\* The first day of that period.
period_start(d, f) ==
    CASE f = "D" -> d
      [] f = "W" -> period_end(d, f) - 6
      [] f = "M" -> MaxOf({0} \cup {e + 1 : e \in {x \in Range(MonthEnds) : x < d}})
      [] f = "Q" -> MaxOf({0} \cup {e + 1 : e \in {x \in Range(QuarterEnds) : x < d}})

\* resample labels a daily bin by its start and a 'W', 'M' or 'Q' bin by its end.
bin_label(d, f) == IF f = "D" THEN period_start(d, f) ELSE period_end(d, f)

bin_total(d, f, lab) ==
    SumSeq(Column(SelectSeq(d, LAMBDA r : bin_label(day_of(r.InvoiceDate), f) = lab),
                  "TotalPrice"))

\* A groupby of the bin label: only the bins that hold a record.
get_sales_trends_occupied_bins(d, f) ==
    LET labs == SortAsc({bin_label(day_of(d[i].InvoiceDate), f) : i \in DOMAIN d})
    IN  [i \in DOMAIN labs |->
            [InvoiceDate |-> labs[i] * HoursPerDay, TotalPrice |-> bin_total(d, f, labs[i])]]

\* df.set_index('InvoiceDate')['TotalPrice'].resample(freq).sum(): every bin from
\* the first record's to the last record's, the sum of an empty bin being 0.
get_sales_trends(d, f) ==
    IF d = <<>> THEN <<>>
    ELSE LET ds == {day_of(d[i].InvoiceDate) : i \in DOMAIN d}
             labs == SortAsc({bin_label(x, f) : x \in MinOf(ds)..MaxOf(ds)})
         IN  [i \in DOMAIN labs |->
                 [InvoiceDate |-> labs[i] * HoursPerDay,
                  TotalPrice |-> bin_total(d, f, labs[i])]]

\* ------------------------------------------------- data_processing.py
required_columns ==
    <<"InvoiceNo", "StockCode", "Description", "Quantity",
      "InvoiceDate", "UnitPrice", "CustomerID", "Country">>

\* Stops at the first required column that is absent.
validate_data_first_missing(cols) ==
    LET all == SelectSeq(required_columns, LAMBDA c : c \notin cols)
    IN  IF all = <<>> THEN <<>> ELSE <<Head(all)>>

\* [col for col in required_columns if col not in df.columns]
validate_data(cols) == SelectSeq(required_columns, LAMBDA c : c \notin cols)

\* The calls main makes once the data are loaded, validated, cleaned and transformed.
analyses ==
    <<"get_sales_trends", "get_top_products", "calculate_rfm",
      "get_rfm_segment_meaning", "calculate_clv", "get_geographic_distribution">>

\* ----------------------------------------------------- data_pipeline.py
\* pd.read_csv(file_path, chunksize=chunk_size), or None on FileNotFoundError.
read_csv_in_chunks(src) ==
    IF src.found THEN [open |-> TRUE, rows |-> src.rows]
    ELSE [open |-> FALSE, rows |-> <<>>]

\* main going on to the sink whatever read_csv_in_chunks returned.
after_read_unguarded(it) == "etl_reset"

\* if chunk_iterator is not None: ... ; logging.info("Data pipeline finished.")
after_read(it) == IF it.open THEN "etl_reset" ELSE "etl_finished"

\* The next chunk of the iterator: at most ChunkSize rows.
next_chunk(it) == SubSeq(it.rows, 1, IF Len(it.rows) < ChunkSize THEN Len(it.rows) ELSE ChunkSize)

rest_of(it) ==
    [open |-> TRUE,
     rows |-> SubSeq(it.rows, Len(next_chunk(it)) + 1, Len(it.rows))]

\* dropna(subset=['date']), then fillna({'quantity': 0, 'revenue': 0}).
etl_clean_data(chunk) ==
    LET kept == SelectSeq(chunk, LAMBDA r : r.date)
    IN  [i \in DOMAIN kept |->
            [date |-> TRUE, product_id |-> kept[i].product_id,
             revenue |-> IF kept[i].revenue = <<>> THEN <<0>> ELSE kept[i].revenue]]

\* cleaned_chunk.groupby('product_id')['revenue'].sum()
revenue_per_product(cleaned) ==
    [p \in {cleaned[i].product_id : i \in DOMAIN cleaned} |->
        SumSeq([i \in DOMAIN SelectSeq(cleaned, LAMBDA r : r.product_id = p) |->
                   SelectSeq(cleaned, LAMBDA r : r.product_id = p)[i].revenue[1]])]

\* total_revenue_per_product.add(revenue_per_product, fill_value=0)
series_add(a, b) ==
    [p \in (DOMAIN a) \cup (DOMAIN b) |->
        (IF p \in DOMAIN a THEN a[p] ELSE 0) + (IF p \in DOMAIN b THEN b[p] ELSE 0)]

\* Series.nlargest(10): descending, equal values in index order.
nlargest(a) ==
    LET place(p) ==
            1 + Cardinality({q \in DOMAIN a : a[q] > a[p] \/ (a[q] = a[p] /\ q < p)})
        n == Cardinality(DOMAIN a)
    IN  [i \in 1..(IF n < TopCount THEN n ELSE TopCount) |->
            LET p == CHOOSE q \in DOMAIN a : place(q) = i
            IN  [product_id |-> p, revenue |-> a[p]]]

\* ----------------------------------------------------------------- inputs
\* A cleaned record set: every row has a customer, rows come in file order.
Line(c, inv, t, q, p) ==
    [CustomerID |-> c, InvoiceNo |-> inv, InvoiceDate |-> t, Quantity |-> q,
     UnitPrice |-> p]

\* Many customers, at most one row each, customers in descending file order.
RECURSIVE Breadth(_, _, _)
Breadth(c, T, P) ==
    IF c = 0 THEN {<<>>}
    ELSE LET own == {<<>>} \cup {<<Line(c, c, t, 1, p)>> : t \in T, p \in P}
         IN  {h \o rest : h \in own, rest \in Breadth(c - 1, T, P)}

RECURSIVE SeqsUpTo(_, _)
SeqsUpTo(S, n) ==
    IF n = 0 THEN {<<>>}
    ELSE LET shorter == SeqsUpTo(S, n - 1)
         IN  shorter \cup {Append(s, x) : s \in shorter, x \in S}

\* Two customers with up to MaxLines rows each, sharing invoice numbers.
Depth(T, P) ==
    LET hist(c) == SeqsUpTo({Line(c, inv, t, 1, p) : inv \in 1..2, t \in T, p \in P},
                            MaxLines)
    IN  {h2 \o h1 : h2 \in hist(2), h1 \in hist(1)}

IsWhole(p) == p % 100 = 0

\* A price column holding a fraction is float64; whole prices parse as either.
Dtypes(d) ==
    IF \A i \in DOMAIN d : IsWhole(d[i].UnitPrice) THEN {"int64", "float64"}
    ELSE {"float64"}

\* Non-empty record sets: customers differing in money only, customers differing
\* in purchase time only, and two customers with several rows each.
RfmInputs ==
    (Breadth(MaxCust, {10}, {1000, 2000, 3000, 4000})
        \cup Breadth(MaxCust, {10, 40, 80, 110}, {1000})
        \cup Depth({10, 80}, {255}))
    \ {<<>>}

ClvInputs == Depth({10, 20, 60}, {255}) \ {<<>>}

\* One customer's rows on days 0, 2, 12, 45 and 130.
TrendInputs ==
    SeqsUpTo({Line(1, 1, t, 1, 255) : t \in {10, 58, 291, 1085, 3125}}, MaxLines)

Frequencies == {"D", "W", "M", "Q"}

\* Uploads: no file, a file read_csv cannot parse, or a CSV with some columns.
Uploads ==
    {[kind |-> "none", columns |-> {}], [kind |-> "unreadable", columns |-> {}]}
        \cup {[kind |-> "csv", columns |-> c] :
                 c \in SUBSET (Range(required_columns) \cup {"Notes"})}

\* Rows of sales_data.csv: the date or the revenue may be missing.
FileRow(d, p, r) == [date |-> d, product_id |-> p, revenue |-> r]

Sources ==
    {[found |-> FALSE, rows |-> <<>>]}
        \cup {[found |-> TRUE, rows |-> rs] :
                 rs \in SeqsUpTo({FileRow(TRUE, p, r) : p \in 1..2, r \in {<<>>, <<5>>}}
                                     \cup {FileRow(FALSE, p, <<5>>) : p \in 1..2},
                                 MaxFileRows)}

\* The sales table before the run: absent, or left by an earlier run.
Sinks ==
    {[exists |-> FALSE, rows |-> <<>>, log |-> <<>>],
     [exists |-> TRUE, rows |-> <<FileRow(TRUE, 1, <<5>>)>>, log |-> <<>>]}

\* ------------------------------------------------- variables not in use
NoFrame == [binned |-> [R |-> FALSE, F |-> FALSE, M |-> FALSE], rows |-> <<>>]

NoIterator == [open |-> FALSE, rows |-> <<>>]

NoSink == [exists |-> FALSE, rows |-> <<>>, log |-> <<>>]

RfmIdle == rfm = NoFrame

SegIdle == scores = [R |-> 1, F |-> 1, M |-> 1] /\ label = ""

ClvIdle == clv = <<>>

TrendIdle == freq = "M" /\ trend = <<>>

DataIdle == df = <<>> /\ dtype = "int64"

AppIdle ==
    /\ upload = [kind |-> "none", columns |-> {}]
    /\ columns = {}
    /\ missing_cols = <<>>
    /\ steps = <<>>

EtlIdle ==
    /\ source = [found |-> FALSE, rows |-> <<>>]
    /\ chunk_iterator = NoIterator
    /\ total_revenue_per_product = <<>>
    /\ sink = NoSink
    /\ top_10_products = <<>>

\* ------------------------------------------------------------ RFM analysis
InitRfm ==
    /\ pc = "rfm_input"
    /\ \E raw \in RfmInputs : df = transform_data(raw) /\ dtype \in Dtypes(raw)
    /\ rfm = NoFrame
    /\ SegIdle /\ ClvIdle /\ TrendIdle /\ AppIdle /\ EtlIdle

\* app.py line 121: rfm_df = calculate_rfm(df)
CalculateRfm ==
    /\ pc = "rfm_input"
    /\ rfm' = calculate_rfm(df, dtype)
    /\ pc' = "rfm_scored"
    /\ UNCHANGED <<df, dtype, scores, label, clv, freq, trend, appVars, etlVars>>

\* app.py line 122: rfm_df['Segment'] = rfm_df.apply(get_rfm_segment_meaning, axis=1)
AssignSegment ==
    /\ pc = "rfm_scored"
    /\ rfm' = [rfm EXCEPT !.rows =
                  [i \in DOMAIN rfm.rows |->
                      [CustomerID |-> rfm.rows[i].CustomerID,
                       Recency |-> rfm.rows[i].Recency,
                       Frequency |-> rfm.rows[i].Frequency,
                       MonetaryValue |-> rfm.rows[i].MonetaryValue,
                       R |-> rfm.rows[i].R, F |-> rfm.rows[i].F, M |-> rfm.rows[i].M,
                       RFM_Segment |-> rfm.rows[i].RFM_Segment,
                       RFM_Score |-> rfm.rows[i].RFM_Score,
                       Segment |-> get_rfm_segment_meaning(rfm.rows[i])]]]
    /\ pc' = "rfm_done"
    /\ UNCHANGED <<df, dtype, scores, label, clv, freq, trend, appVars, etlVars>>

NextRfm == CalculateRfm \/ AssignSegment

SpecRfm == InitRfm /\ [][NextRfm]_vars

Scored == pc \in {"rfm_scored", "rfm_done"}

CustomerIDs(d) == {d[i].CustomerID : i \in DOMAIN d}

RecencyValues == {rfm.rows[i].Recency : i \in DOMAIN rfm.rows}

\* C1 as stated: fewer than 4 distinct raw Recency values, whatever the number of
\* customers, give every customer R = 2.
C1_FewDistinctRecencyAllTwo ==
    (Scored /\ Cardinality(RecencyValues) < 4)
        => \A i \in DOMAIN rfm.rows : rfm.rows[i].R = 2

\* C1 amended: R-scoring always ends with a score for every customer; all customers
\* get the fallback R = 2 exactly when there is a single customer.  With two or more
\* customers the tie-broken ranks are distinct, quartile binning succeeds however few
\* distinct raw Recency values there are, and the customer of lowest Recency rank is
\* scored 4 and the one of highest rank 1.
C1_FallbackOnlyForSingleCustomer ==
    Scored =>
        LET n == Len(rfm.rows)
            rk == rank_first(Column(rfm.rows, "Recency"))
        IN  /\ n = Cardinality(CustomerIDs(df))
            /\ rfm.binned.R <=> (n >= 2)
            /\ ((n = 1) => (rfm.rows[1].R = 2))
            /\ ((n >= 2) =>
                  \A i \in 1..n : /\ ((rk[i] = 1) => (rfm.rows[i].R = 4))
                                   /\ ((rk[i] = n) => (rfm.rows[i].R = 1)))

\* Four or more customers with tied Recency, scored by binning.
C1_Witness ==
    /\ pc = "rfm_scored"
    /\ Len(rfm.rows) >= 4
    /\ Cardinality(RecencyValues) < 4
    /\ rfm.binned.R
    /\ \E i \in DOMAIN rfm.rows : rfm.rows[i].R # 2

\* C2: every customer identifier of the input appears exactly once in the output of
\* calculate_rfm, and no other identifier appears.
C2_EachCustomerExactlyOnce ==
    Scored =>
        /\ \A c \in CustomerIDs(df) :
              Cardinality({i \in DOMAIN rfm.rows : rfm.rows[i].CustomerID = c}) = 1
        /\ \A i \in DOMAIN rfm.rows : rfm.rows[i].CustomerID \in CustomerIDs(df)

\* Two customers, one of them with several input rows.
C2_Witness ==
    /\ pc = "rfm_scored"
    /\ Cardinality(CustomerIDs(df)) = 2
    /\ \E c \in CustomerIDs(df) : Len(group_rows(df, c)) >= 2
    /\ Len(rfm.rows) = 2

\* C3: R, F and M are integers in 1..4, RFM_Score is their sum and lies in 3..12,
\* whether the metric was binned or took the fallback.
C3_ScoresInRange ==
    Scored =>
        \A i \in DOMAIN rfm.rows :
            /\ rfm.rows[i].R \in 1..4
            /\ rfm.rows[i].F \in 1..4
            /\ rfm.rows[i].M \in 1..4
            /\ rfm.rows[i].RFM_Score = rfm.rows[i].R + rfm.rows[i].F + rfm.rows[i].M
            /\ rfm.rows[i].RFM_Score \in 3..12

\* A binned population holding both extremes of the score.
C3_Witness ==
    /\ pc = "rfm_scored"
    /\ rfm.binned.R /\ rfm.binned.F /\ rfm.binned.M
    /\ \E i \in DOMAIN rfm.rows : rfm.rows[i].RFM_Score = 12
    /\ \E i \in DOMAIN rfm.rows : rfm.rows[i].RFM_Score = 3

Numeral == <<"1", "2", "3", "4">>

\* C4: RFM_Segment is the 3 numerals of R, F and M, in that order.
C4_SegmentIsThreeNumerals ==
    Scored =>
        \A i \in DOMAIN rfm.rows :
            /\ Len(rfm.rows[i].RFM_Segment) = 3
            /\ rfm.rows[i].RFM_Segment =
                  Numeral[rfm.rows[i].R] \o Numeral[rfm.rows[i].F] \o Numeral[rfm.rows[i].M]

\* C5: where M was binned, a larger raw Monetary value never has a smaller M-score,
\* and four customers with Monetary values 10, 20, 30, 40 score 1, 2, 3, 4.
C5_MonetaryMonotone ==
    (Scored /\ rfm.binned.M) =>
        /\ (\A i, j \in DOMAIN rfm.rows :
              (rfm.rows[i].MonetaryValue < rfm.rows[j].MonetaryValue)
                  => (rfm.rows[i].M <= rfm.rows[j].M))
        /\ ((/\ Len(rfm.rows) = 4
             /\ {rfm.rows[i].MonetaryValue : i \in DOMAIN rfm.rows}
                   = {1000, 2000, 3000, 4000})
              => (\A i \in DOMAIN rfm.rows :
                    rfm.rows[i].M * 1000 = rfm.rows[i].MonetaryValue))

\* The four customers of the example, not in ascending order of identifier.
C5_Witness ==
    /\ pc = "rfm_scored"
    /\ rfm.binned.M
    /\ Len(rfm.rows) = 4
    /\ Column(rfm.rows, "MonetaryValue") = <<3000, 1000, 4000, 2000>>
    /\ Column(rfm.rows, "M") = <<3, 1, 4, 2>>

\* ------------------------------------------------------ segment meaning
ScoreRange == 1..QuartileCount

InitSeg ==
    /\ pc = "seg_input"
    /\ scores \in [R : ScoreRange, F : ScoreRange, M : ScoreRange]
    /\ label = ""
    /\ DataIdle /\ RfmIdle /\ ClvIdle /\ TrendIdle /\ AppIdle /\ EtlIdle

GetRfmSegmentMeaning ==
    /\ pc = "seg_input"
    /\ label' = get_rfm_segment_meaning(scores)
    /\ pc' = "seg_done"
    /\ UNCHANGED <<df, dtype, rfm, scores, clv, freq, trend, appVars, etlVars>>

NextSeg == GetRfmSegmentMeaning

SpecSeg == InitSeg /\ [][NextSeg]_vars

\* C6: the label is that of the first rule that holds, in the order Best, Loyal,
\* Big Spenders, At Risk, Needs Attention, Others; R=4, F=4, M=1 is Loyal.
C6_FirstMatchWins ==
    (pc = "seg_done") =>
        LET R == scores.R
            F == scores.F
            M == scores.M
            best == R >= 4 /\ F >= 4 /\ M >= 4
            loyal == R >= 3 /\ F >= 3
            big == R >= 3 /\ M >= 3
            risk == R <= 2 /\ F <= 2
            attention == R <= 2
        IN  /\ (label = "Best Customers") <=> best
            /\ (label = "Loyal Customers") <=> (~best /\ loyal)
            /\ (label = "Big Spenders") <=> (~best /\ ~loyal /\ big)
            /\ (label = "At Risk") <=> (~best /\ ~loyal /\ ~big /\ risk)
            /\ (label = "Needs Attention")
                  <=> (~best /\ ~loyal /\ ~big /\ ~risk /\ attention)
            /\ (label = "Others")
                  <=> (~best /\ ~loyal /\ ~big /\ ~risk /\ ~attention)
            /\ ((R = 4 /\ F = 4 /\ M = 1) => (label = "Loyal Customers"))

C6_Witness ==
    /\ pc = "seg_done"
    /\ scores = [R |-> 4, F |-> 4, M |-> 1]
    /\ label = "Loyal Customers"

\* ------------------------------------------------- customer lifetime value
InitClv ==
    /\ pc = "clv_input"
    /\ \E raw \in ClvInputs : df = transform_data(raw) /\ dtype = "float64"
    /\ clv = <<>>
    /\ RfmIdle /\ SegIdle /\ TrendIdle /\ AppIdle /\ EtlIdle

\* app.py line 142: clv_df = calculate_clv(df)
CalculateClv ==
    /\ pc = "clv_input"
    /\ clv' \in calculate_clv(df)
    /\ pc' = "clv_done"
    /\ UNCHANGED <<df, dtype, rfm, scores, label, freq, trend, appVars, etlVars>>

NextClv == CalculateClv

SpecClv == InitClv /\ [][NextClv]_vars

\* C7: the denominator of purchase_frequency is purchase_lifespan + 1 and never 0;
\* purchase_lifespan is never negative; a customer whose first and last purchase fall
\* on the same day has lifespan 0 and a frequency of total_transactions / 1.
C7_FrequencyDenominatorNeverZero ==
    (pc = "clv_done") =>
        /\ Len(clv) = Cardinality(CustomerIDs(df))
        /\ \A i \in DOMAIN clv :
              /\ clv[i].purchase_lifespan >= 0
              /\ clv[i].purchase_frequency.den = clv[i].purchase_lifespan + 1
              /\ clv[i].purchase_frequency.den # 0
              /\ clv[i].purchase_frequency.num = clv[i].total_transactions
              /\ (day_of(clv[i].first_purchase_date) = day_of(clv[i].last_purchase_date))
                    => /\ clv[i].purchase_lifespan = 0
                       /\ clv[i].purchase_frequency
                             = [num |-> clv[i].total_transactions, den |-> 1]

\* A customer with two invoices on one day.
C7_Witness ==
    /\ pc = "clv_done"
    /\ \E i \in DOMAIN clv :
          /\ clv[i].total_transactions = 2
          /\ clv[i].first_purchase_date # clv[i].last_purchase_date
          /\ day_of(clv[i].first_purchase_date) = day_of(clv[i].last_purchase_date)
          /\ clv[i].purchase_frequency = [num |-> 2, den |-> 1]

\* ------------------------------------------------------------ sales trends
InitTrend ==
    /\ pc = "trend_input"
    /\ \E raw \in TrendInputs : df = transform_data(raw) /\ dtype = "float64"
    /\ freq \in Frequencies
    /\ trend = <<>>
    /\ RfmIdle /\ SegIdle /\ ClvIdle /\ AppIdle /\ EtlIdle

\* app.py line 105: sales_trends = get_sales_trends(df, freq=freq_map[freq])
GetSalesTrends ==
    /\ pc = "trend_input"
    /\ trend' = get_sales_trends(df, freq)
    /\ pc' = "trend_done"
    /\ UNCHANGED <<df, dtype, rfm, scores, label, clv, freq, appVars, etlVars>>

NextTrend == GetSalesTrends

SpecTrend == InitTrend /\ [][NextTrend]_vars

RecordDays == {day_of(df[i].InvoiceDate) : i \in DOMAIN df}

Chronological ==
    \A i \in DOMAIN trend :
        (i > 1) => (trend[i - 1].InvoiceDate < trend[i].InvoiceDate)

\* The sum of the line totals of the period of granularity freq that holds day d.
PeriodTotal(d) ==
    SumSeq(Column(SelectSeq(df, LAMBDA r :
                      period_start(day_of(r.InvoiceDate), freq) = period_start(d, freq)),
                  "TotalPrice"))

\* C10 as stated: chronological (bucket-start, total) pairs, each total the sum of
\* its bucket, and no bucket without a record in the output.
C10_BucketStartsNoGapFill ==
    (pc = "trend_done") =>
        /\ Chronological
        /\ \A i \in DOMAIN trend :
              LET d == day_of(trend[i].InvoiceDate)
              IN  /\ trend[i].InvoiceDate = period_start(d, freq) * HoursPerDay
                  /\ trend[i].TotalPrice = PeriodTotal(d)
                  /\ \E x \in RecordDays : period_start(x, freq) = period_start(d, freq)

\* C10 amended: chronological (bucket-label, total) pairs, the label being the
\* bucket's first day for daily granularity and its last day for weekly, monthly and
\* quarterly granularity; each total is the sum of the line totals of its bucket;
\* every bucket from the first record's to the last record's appears exactly once,
\* one that holds no record with total 0, and no bucket outside that range appears.
C10_LabelledBinsGapsFilled ==
    (pc = "trend_done") =>
        /\ Chronological
        /\ \A i \in DOMAIN trend :
              LET d == day_of(trend[i].InvoiceDate)
              IN  /\ trend[i].InvoiceDate =
                        (IF freq = "D" THEN period_start(d, freq) ELSE period_end(d, freq))
                            * HoursPerDay
                  /\ trend[i].TotalPrice = PeriodTotal(d)
                  /\ ((\A x \in RecordDays : period_start(x, freq) # period_start(d, freq))
                        => (trend[i].TotalPrice = 0))
                  /\ MinOf(RecordDays) <= period_end(d, freq)
                  /\ period_start(d, freq) <= MaxOf(RecordDays)
        /\ (df # <<>>) =>
              \A x \in MinOf(RecordDays)..MaxOf(RecordDays) :
                  \E i \in DOMAIN trend :
                      period_start(day_of(trend[i].InvoiceDate), freq) = period_start(x, freq)

\* A monthly series with an empty month between two months that hold records.
C10_Witness ==
    /\ pc = "trend_done"
    /\ freq = "M"
    /\ \E i \in DOMAIN trend :
          /\ 1 < i /\ i < Len(trend)
          /\ trend[i].TotalPrice = 0
          /\ trend[1].TotalPrice > 0
          /\ trend[Len(trend)].TotalPrice > 0

\* ------------------------------------------------------ the dashboard run
InitApp ==
    /\ pc = "app_start"
    /\ upload \in Uploads
    /\ columns = {}
    /\ missing_cols = <<>>
    /\ steps = <<>>
    /\ DataIdle /\ RfmIdle /\ SegIdle /\ ClvIdle /\ TrendIdle /\ EtlIdle

\* app.py lines 45-53: no file yet, the page asks for one and returns.
NoUpload ==
    /\ pc = "app_start"
    /\ upload.kind = "none"
    /\ pc' = "app_waiting"
    /\ UNCHANGED <<analysisVars, appVars, etlVars>>

\* app.py lines 57-60: load_data returns the frame, or None and main returns.
LoadData ==
    /\ pc = "app_start"
    /\ upload.kind # "none"
    /\ steps' = Append(steps, "load_data")
    /\ IF upload.kind = "csv"
       THEN columns' = upload.columns /\ pc' = "app_loaded"
       ELSE columns' = columns /\ pc' = "app_load_failed"
    /\ UNCHANGED <<analysisVars, upload, missing_cols, etlVars>>

\* app.py lines 62-65: validate_data, and return when a column is missing.
ValidateData ==
    /\ pc = "app_loaded"
    /\ steps' = Append(steps, "validate_data")
    /\ missing_cols' = validate_data(columns)
    /\ pc' = IF missing_cols' # <<>> THEN "app_missing_columns" ELSE "app_validated"
    /\ UNCHANGED <<analysisVars, upload, columns, etlVars>>

\* app.py line 67: df = clean_data(df)
CleanData ==
    /\ pc = "app_validated"
    /\ steps' = Append(steps, "clean_data")
    /\ pc' = "app_cleaned"
    /\ UNCHANGED <<analysisVars, upload, columns, missing_cols, etlVars>>

\* app.py line 68: df = transform_data(df), which adds the TotalPrice column.
TransformData ==
    /\ pc = "app_cleaned"
    /\ steps' = Append(steps, "transform_data")
    /\ columns' = columns \cup {"TotalPrice"}
    /\ pc' = "app_transformed"
    /\ UNCHANGED <<analysisVars, upload, missing_cols, etlVars>>

\* app.py lines 77-164: the analyses, one call after the other.
RunAnalysis ==
    /\ pc = "app_transformed"
    /\ LET done == Len(SelectSeq(steps, LAMBDA x : x \in Range(analyses)))
       IN  /\ steps' = Append(steps, analyses[done + 1])
           /\ pc' = IF done + 1 = Len(analyses) THEN "app_done" ELSE pc
    /\ UNCHANGED <<analysisVars, upload, columns, missing_cols, etlVars>>

NextApp ==
    \/ NoUpload
    \/ LoadData
    \/ ValidateData
    \/ CleanData
    \/ TransformData
    \/ RunAnalysis

SpecApp == InitApp /\ [][NextApp]_vars

Validated == \E i \in DOMAIN steps : steps[i] = "validate_data"

\* C8: validate_data returns exactly the required columns absent from the input, in
\* the order of the list, and leaves the input as it was; when the list is not empty
\* the run stops with no cleaning, transformation or analysis executed; an input
\* missing only Country yields ["Country"].
C8_MissingColumnsExactAndRunStops ==
    Validated =>
        /\ Range(missing_cols) = Range(required_columns) \ upload.columns
        /\ \A i, j \in DOMAIN missing_cols :
              (i < j) =>
                  \E a, b \in DOMAIN required_columns :
                      a < b /\ required_columns[a] = missing_cols[i]
                            /\ required_columns[b] = missing_cols[j]
        /\ (pc \in {"app_missing_columns", "app_validated"}) => (columns = upload.columns)
        /\ (missing_cols # <<>>) =>
              /\ pc = "app_missing_columns"
              /\ steps = <<"load_data", "validate_data">>
              /\ columns = upload.columns
        /\ (Range(required_columns) \ upload.columns = {"Country"})
              => (missing_cols = <<"Country">>)

\* The run stopped on an upload that lacks Country alone.
C8_Witness ==
    /\ pc = "app_missing_columns"
    /\ missing_cols = <<"Country">>
    /\ steps = <<"load_data", "validate_data">>

\* ------------------------------------------------------------ the batch run
InitEtl ==
    /\ pc = "etl_start"
    /\ source \in Sources
    /\ sink \in Sinks
    /\ chunk_iterator = NoIterator
    /\ total_revenue_per_product = <<>>
    /\ top_10_products = <<>>
    /\ DataIdle /\ RfmIdle /\ SegIdle /\ ClvIdle /\ TrendIdle /\ AppIdle

\* data_pipeline.py lines 54-56 and 87: read_csv_in_chunks, then the None test.
ReadCsvInChunks ==
    /\ pc = "etl_start"
    /\ chunk_iterator' = read_csv_in_chunks(source)
    /\ pc' = after_read(chunk_iterator')
    /\ UNCHANGED <<analysisVars, appVars, source, total_revenue_per_product, sink,
                   top_10_products>>

\* data_pipeline.py lines 57-62: the empty series and DROP TABLE IF EXISTS sales.
ResetTable ==
    /\ pc = "etl_reset"
    /\ total_revenue_per_product' = <<>>
    /\ sink' = [exists |-> FALSE, rows |-> <<>>, log |-> Append(sink.log, "drop")]
    /\ pc' = "etl_chunks"
    /\ UNCHANGED <<analysisVars, appVars, source, chunk_iterator, top_10_products>>

\* data_pipeline.py lines 65-74: one pass of the loop over the chunks.
ProcessChunk ==
    /\ pc = "etl_chunks"
    /\ chunk_iterator.rows # <<>>
    /\ LET cleaned_chunk == etl_clean_data(next_chunk(chunk_iterator))
       IN  /\ total_revenue_per_product' =
                 series_add(total_revenue_per_product, revenue_per_product(cleaned_chunk))
           /\ sink' = [exists |-> TRUE, rows |-> sink.rows \o cleaned_chunk,
                       log |-> Append(sink.log, "append")]
    /\ chunk_iterator' = rest_of(chunk_iterator)
    /\ UNCHANGED <<pc, analysisVars, appVars, source, top_10_products>>

\* data_pipeline.py lines 76-87: the loop is over, the top 10 are reported.
Finalize ==
    /\ pc = "etl_chunks"
    /\ chunk_iterator.rows = <<>>
    /\ top_10_products' = nlargest(total_revenue_per_product)
    /\ pc' = "etl_finished"
    /\ UNCHANGED <<analysisVars, appVars, source, chunk_iterator,
                   total_revenue_per_product, sink>>

NextEtl == ReadCsvInChunks \/ ResetTable \/ ProcessChunk \/ Finalize

SpecEtl == InitEtl /\ [][NextEtl]_vars

\* C9: a run whose source file is not found never resets the table nor appends a
\* chunk; a run whose source is found resets the table exactly once, before the
\* first append.
C9_NoSinkMutationWithoutSource ==
    /\ (~source.found) => (sink.log = <<>>)
    /\ (pc \in {"etl_start", "etl_reset"}) => (sink.log = <<>>)
    /\ (source.found /\ pc \in {"etl_chunks", "etl_finished"}) => (sink.log # <<>>)
    /\ \A i \in DOMAIN sink.log : (sink.log[i] = "drop") <=> (i = 1)

\* A run without its source file is over and the earlier table is as it was.
C9_Witness ==
    /\ pc = "etl_finished"
    /\ ~source.found
    /\ sink \in Sinks
    /\ sink.exists

====
